---- MODULE Spec2Model ----
(***************************************************************************)
(* A model of examples/bm25_en_caption/run_bm25_baseline.py: the BM25      *)
(* baseline driver of AToMiC (qrels preparation, collection staging and    *)
(* indexing, topic reformatting, search).                                  *)
(*                                                                         *)
(* File and directory names are sequences of tokens, so that the glob      *)
(* patterns of create_index are real prefix/suffix matches.  The file      *)
(* system under output_path is the pair (dirs, fs).                        *)
(***************************************************************************)
EXTENDS Naturals, Sequences, FiniteSets, TLC

VARIABLES
    output_path,   \* the Path the run was given (relative or absolute)
    dirs,          \* directories that exist under output_path
    fs,            \* directory entries (regular files and symbolic links)
    proc,          \* per invocation of create_index: its locals and position
    calls,         \* invocations of the external engine, in order
    drv,           \* the driver (main): its position and loop variables
    log,           \* operations main has completed in the current run
    qrel,          \* prep_qrels: its input dataset, position and written files
    conv           \* convert_jsonl_for_search: input, pool, results, output

vars == <<output_path, dirs, fs, proc, calls, drv, log, qrel, conv>>

----------------------------------------------------------------------------
(* Bounds of the model.                                                    *)

MaxShards == 2      \* shard files per encoded collection directory (SpecIndex)
MaxCalls == 2       \* successive create_index invocations (SpecIndex)
MaxRuns == 2        \* successive driver runs on one output path (Spec)
MaxQrels == 2       \* records of the qrels dataset of a split (SpecQrels)
MaxLines == 5       \* lines of a file given to convert_jsonl_for_search (SpecConvert)
MaxWorkers == 2     \* processes of the pool (SpecConvert)

----------------------------------------------------------------------------
(* Program constants.                                                      *)

SPLITS == <<"train", "validation", "test", "other">>
SETTINGS == <<"small", "base", "large">>
ENCODING_FIELDS == <<"text", "image_caption">>

\* Python's None, as the split argument of create_index.
None == "<None>"

\* All orders in which the members of a finite set can be listed.
RECURSIVE Perms(_)
Perms(S) ==
    IF S = {} THEN {<<>>}
    ELSE UNION {{<<x>> \o t : t \in Perms(S \ {x})} : x \in S}

----------------------------------------------------------------------------
(* Paths.                                                                  *)

Cwd == <<"cwd">>

\* output_path / d
Under(d) == [abs |-> output_path.abs, parts |-> output_path.parts \o <<"/">> \o d]

\* Path.resolve(): a relative path is made absolute against the working
\* directory; the engine opens a relative path against the same directory.
Resolve(p) ==
    IF p.abs THEN p ELSE [abs |-> TRUE, parts |-> Cwd \o <<"/">> \o p.parts]

\* Python truthiness of the split argument: None and "" are falsy.
Truthy(split) == split # None /\ split # ""

\* postfix = "." + split if setting == "small" else ""
Postfix(setting, split) == IF setting = "small" THEN <<".", split>> ELSE <<>>

TextCollection == <<"text-collection">>
ImageCollection == <<"image-collection">>
Indexes == <<"indexes">>

\* output_path / f"text-collection.{setting}{postfix}"
StagingDir(collection, setting, postfix) == collection \o <<".", setting>> \o postfix

\* f"indexes/lucene-index.atomic.{modality}.flat.{setting}{postfix}"
IndexDir(modality, setting, postfix) ==
    Indexes \o <<"/", "lucene-index.atomic.", modality, ".flat.", setting>> \o postfix

----------------------------------------------------------------------------
(* File system primitives.                                                 *)

\* The exist_ok argument every mkdir of the program passes.
ExistOk == TRUE

\* Path.mkdir(exist_ok): FileExistsError when the directory exists, unless
\* exist_ok; otherwise the directory exists afterwards.
MkdirFails(ds, d) == d \in ds /\ ~ExistOk
Mkdir(ds, d) == ds \cup {d}

Exists(files, d, name) == \E e \in files : e.dir = d /\ e.name = name

\* The pattern f"{prefix}*.jsonl": the name begins with prefix and ends in .jsonl.
GlobMatch(name, prefix) ==
    /\ Len(name) >= Len(prefix) + 1
    /\ SubSeq(name, 1, Len(prefix)) = prefix
    /\ name[Len(name)] = ".jsonl"

\* Path.glob: the matching entries of directory d, which the file system
\* lists in an order of its own choosing.
Glob(files, d, prefix) ==
    Perms({e.name : e \in {x \in files : x.dir = d /\ GlobMatch(x.name, prefix)}})

\* Mutant: the shard is copied into the staging directory.
SymlinkEntry_Copy(d, name, source) ==
    [dir |-> d, name |-> name, kind |-> "file", target |-> <<>>]

\* (d / name).symlink_to(target)
SymlinkEntry(d, name, source) ==
    [dir |-> d, name |-> name, kind |-> "link", target |-> source \o <<"/">> \o name]

RegularFile(d, name) == [dir |-> d, name |-> name, kind |-> "file", target |-> <<>>]

----------------------------------------------------------------------------
(* create_index(setting, split, output_path), one file system operation or *)
(* engine invocation per step.                                             *)

Procs == {1, 2}

Idle ==
    [pc |-> "idle", setting |-> "", split |-> None, text_paths |-> <<>>,
     image_paths |-> <<>>, k |-> 0, err |-> "", at |-> "", fresh |-> FALSE, n |-> 0]

NoPath == [abs |-> FALSE, parts |-> <<>>]

\* Mutant: only None counts as a missing split.
UsageError_NoneOnly(setting, split) == setting = "small" /\ split = None

\* if setting == "small" and not split: raise Exception(...)
UsageError(setting, split) == setting = "small" /\ ~Truthy(split)

\* Mutant: "base" aggregates every split.
BaseSplits_All == SPLITS

\* for split in ["train", "validation", "test"]
BaseSplits == <<"train", "validation", "test">>

RECURSIVE GlobEach(_, _, _)
GlobEach(files, d, splits) ==
    IF splits = <<>> THEN {<<>>}
    ELSE {a \o b : a \in Glob(files, d, <<Head(splits)>>),
                   b \in GlobEach(files, d, Tail(splits))}

\* The list of shard paths create_index selects from collection d, in each
\* order the listing of the directory allows.
SelectShards(files, d, setting, split) ==
    IF setting = "small" THEN Glob(files, d, <<split>>)
    ELSE IF setting = "base" THEN GlobEach(files, d, BaseSplits)
    ELSE Glob(files, d, <<>>)

TextDir(q) == StagingDir(TextCollection, q.setting, Postfix(q.setting, q.split))
ImageDir(q) == StagingDir(ImageCollection, q.setting, Postfix(q.setting, q.split))

\* An exception leaves the invocation: err is its kind, at the step it left.
Raised(q, e) == [q EXCEPT !.pc = "raised", !.err = e, !.at = q.pc]
Raise(p, e) == proc' = [proc EXCEPT ![p] = Raised(proc[p], e)]

CI_Enter(p) ==
    /\ proc[p].pc = "enter"
    /\ IF UsageError(proc[p].setting, proc[p].split)
       THEN Raise(p, "UsageError")
       ELSE proc' = [proc EXCEPT ![p].pc = "mkdir_text"]
    /\ UNCHANGED <<output_path, dirs, fs, calls, drv, log, qrel, conv>>

CI_MkdirText(p) ==
    /\ proc[p].pc = "mkdir_text"
    /\ IF MkdirFails(dirs, TextDir(proc[p]))
       THEN Raise(p, "FileExistsError") /\ dirs' = dirs
       ELSE /\ dirs' = Mkdir(dirs, TextDir(proc[p]))
            /\ proc' = [proc EXCEPT ![p].pc = "mkdir_image",
                                    ![p].fresh = TextDir(proc[p]) \notin dirs]
    /\ UNCHANGED <<output_path, fs, calls, drv, log, qrel, conv>>

CI_MkdirImage(p) ==
    /\ proc[p].pc = "mkdir_image"
    /\ IF MkdirFails(dirs, ImageDir(proc[p]))
       THEN Raise(p, "FileExistsError") /\ dirs' = dirs
       ELSE /\ dirs' = Mkdir(dirs, ImageDir(proc[p]))
            /\ proc' = [proc EXCEPT ![p].pc = "glob",
                                    ![p].fresh = @ /\ ImageDir(proc[p]) \notin dirs]
    /\ UNCHANGED <<output_path, fs, calls, drv, log, qrel, conv>>

CI_Glob(p) ==
    /\ proc[p].pc = "glob"
    /\ \E tp \in SelectShards(fs, TextCollection, proc[p].setting, proc[p].split),
          ip \in SelectShards(fs, ImageCollection, proc[p].setting, proc[p].split) :
          proc' = [proc EXCEPT ![p].text_paths = tp, ![p].image_paths = ip,
                               ![p].k = 0,
                               ![p].pc = IF Len(tp) + Len(ip) = 0
                                         THEN "mkdir_indexes" ELSE "link"]
    /\ UNCHANGED <<output_path, dirs, fs, calls, drv, log, qrel, conv>>

\* The links of one invocation in the order the two loops place them:
\* every text shard, then every image shard.
LinkPlan(q) ==
    [i \in 1..Len(q.text_paths) |->
        [dir |-> TextDir(q), name |-> q.text_paths[i], source |-> TextCollection]]
    \o
    [i \in 1..Len(q.image_paths) |->
        [dir |-> ImageDir(q), name |-> q.image_paths[i], source |-> ImageCollection]]

\* Mutant: an existing link is silently replaced.
LinkStep_Replace(files, q) ==
    LET plan == LinkPlan(q)
        l == plan[q.k + 1]
    IN [fs |-> {e \in files : ~(e.dir = l.dir /\ e.name = l.name)}
                  \cup {[dir |-> l.dir, name |-> l.name, kind |-> "link",
                         target |-> l.source \o <<"/">> \o l.name]},
        q |-> [q EXCEPT !.k = @ + 1,
                        !.pc = IF q.k + 1 = Len(plan) THEN "mkdir_indexes" ELSE "link"]]

\* One iteration of the link loops on the files `files`, by the invocation
\* with locals q: (dir / p.name).symlink_to(p) raises FileExistsError when
\* the name is taken, and places the link otherwise.
LinkStep(files, q) ==
    LET plan == LinkPlan(q)
        l == plan[q.k + 1]
    IN IF Exists(files, l.dir, l.name)
       THEN [fs |-> files, q |-> Raised(q, "FileExistsError")]
       ELSE [fs |-> files \cup {SymlinkEntry(l.dir, l.name, l.source)},
             q |-> [q EXCEPT !.k = @ + 1,
                             !.pc = IF q.k + 1 = Len(plan)
                                    THEN "mkdir_indexes" ELSE "link"]]

CI_Link(p) ==
    /\ proc[p].pc = "link"
    /\ fs' = LinkStep(fs, proc[p]).fs
    /\ proc' = [proc EXCEPT ![p] = LinkStep(fs, proc[p]).q]
    /\ UNCHANGED <<output_path, dirs, calls, drv, log, qrel, conv>>

CI_MkdirIndexes(p) ==
    /\ proc[p].pc = "mkdir_indexes"
    /\ IF MkdirFails(dirs, Indexes)
       THEN Raise(p, "FileExistsError") /\ dirs' = dirs
       ELSE /\ dirs' = Mkdir(dirs, Indexes)
            /\ proc' = [proc EXCEPT ![p].pc = "index_text"]
    /\ UNCHANGED <<output_path, fs, calls, drv, log, qrel, conv>>

\* anserini_index(args): IndexCollection.main builds the index at -index
\* from the documents found under -input.
IndexCall(p, input, index) ==
    [tool |-> "index", by |-> p, run |-> drv.run, input |-> Resolve(Under(input)),
     index |-> Under(index), topics |-> NoPath, output |-> NoPath]

CI_IndexText(p) ==
    /\ proc[p].pc = "index_text"
    /\ LET ix == IndexDir("text", proc[p].setting, Postfix(proc[p].setting, proc[p].split))
       IN /\ calls' = Append(calls, IndexCall(p, TextDir(proc[p]), ix))
          /\ dirs' = dirs \cup {ix}
    /\ proc' = [proc EXCEPT ![p].pc = "index_image"]
    /\ UNCHANGED <<output_path, fs, drv, log, qrel, conv>>

CI_IndexImage(p) ==
    /\ proc[p].pc = "index_image"
    /\ LET ix == IndexDir("image", proc[p].setting, Postfix(proc[p].setting, proc[p].split))
       IN /\ calls' = Append(calls, IndexCall(p, ImageDir(proc[p]), ix))
          /\ dirs' = dirs \cup {ix}
    /\ proc' = [proc EXCEPT ![p].pc = "done"]
    /\ UNCHANGED <<output_path, fs, drv, log, qrel, conv>>

\* A failure of the external indexer is not caught.
CI_IndexerFails(p) ==
    /\ proc[p].pc \in {"index_text", "index_image"}
    /\ Raise(p, "IndexerError")
    /\ UNCHANGED <<output_path, dirs, fs, calls, drv, log, qrel, conv>>

CreateIndexStep(p) ==
    \/ CI_Enter(p)
    \/ CI_MkdirText(p)
    \/ CI_MkdirImage(p)
    \/ CI_Glob(p)
    \/ CI_Link(p)
    \/ CI_MkdirIndexes(p)
    \/ CI_IndexText(p)
    \/ CI_IndexImage(p)
    \/ CI_IndexerFails(p)

----------------------------------------------------------------------------
(* States of the parts a specification does not exercise.                  *)

DrvIdle == [pc |-> "off", i |-> 0, j |-> 0, k |-> 0, run |-> 0, err |-> ""]
QrelIdle == [pc |-> "off", cols |-> <<>>, rows |-> <<>>, split |-> "", t2i |-> <<>>, i2t |-> <<>>]
ConvIdle == [pc |-> "off", lines |-> <<>>, processes |-> 0, chunksize |-> 0, next |-> 0,
             busy |-> <<>>, results |-> <<>>, arrived |-> {}, overtaken |-> FALSE,
             rows |-> <<>>, out |-> <<>>]

----------------------------------------------------------------------------
(* SpecIndex: successive invocations of create_index, with any arguments,  *)
(* over any small set of files in the two encoded collection directories.  *)

TextShardNames ==
    { <<"train", ".text", ".jsonl">>,
      <<"validation", ".text", ".jsonl">>,
      <<"test", ".text", ".jsonl">>,
      <<"other", ".text", ".jsonl">>,
      <<"test", "ing", ".jsonl">>,
      <<"validation", ".text", ".json">> }

ImageShardSets ==
    { {},
      {<<"validation", ".image-caption", ".jsonl">>},
      {<<"validation", ".image-caption", ".jsonl">>,
       <<"other", ".image-caption", ".jsonl">>} }

CallArgs ==
    {<<"small", s>> : s \in {None, "", "validation", "test"}}
    \cup {<<"base", "">>, <<"large", None>>}

AbsoluteOut == [abs |-> TRUE, parts |-> <<"data">>]
RelativeOut == [abs |-> FALSE, parts |-> <<"out">>]

Collections(ts, is) ==
    {RegularFile(TextCollection, n) : n \in ts}
    \cup {RegularFile(ImageCollection, n) : n \in is}

InitIndex ==
    /\ output_path = RelativeOut
    /\ dirs = {TextCollection, ImageCollection}
    /\ \E ts \in SUBSET TextShardNames, is \in ImageShardSets :
          /\ Cardinality(ts) <= MaxShards
          /\ fs = Collections(ts, is)
    /\ proc = [p \in Procs |-> Idle]
    /\ calls = <<>>
    /\ drv = DrvIdle
    /\ log = <<>>
    /\ qrel = QrelIdle
    /\ conv = ConvIdle

CI_Call(p) ==
    /\ proc[p].pc \in {"idle", "done", "raised"}
    /\ proc[p].n < MaxCalls
    /\ \E a \in CallArgs :
          proc' = [proc EXCEPT ![p] = [Idle EXCEPT !.pc = "enter", !.setting = a[1],
                                                   !.split = a[2], !.n = proc[p].n + 1]]
    /\ UNCHANGED <<output_path, dirs, fs, calls, drv, log, qrel, conv>>

NextIndex == CI_Call(1) \/ CreateIndexStep(1)

SpecIndex == InitIndex /\ [][NextIndex]_vars

----------------------------------------------------------------------------
(* Claims about create_index (SpecIndex).                                  *)

MissingSplit(split) == split \in {None, ""}

\* C1: create_index with setting "small" and a missing split (None or "")
\* raises the usage error in its first step, with no directory created, no
\* link placed and no indexer invocation; with setting "base" or "large" a
\* missing split raises nothing there.
C1_UsageErrorImmediate ==
    [][\A p \in Procs :
          (proc[p].pc = "enter" /\ proc'[p] # proc[p]) =>
             /\ (proc[p].setting = "small" /\ MissingSplit(proc[p].split)) =>
                   /\ proc'[p].pc = "raised"
                   /\ proc'[p].err = "UsageError"
                   /\ dirs' = dirs /\ fs' = fs /\ calls' = calls
             /\ (proc[p].setting \in {"base", "large"} /\ MissingSplit(proc[p].split)) =>
                   proc'[p].pc = "mkdir_text"]_vars

C1_Witness ==
    /\ proc[1].pc = "raised" /\ proc[1].err = "UsageError" /\ proc[1].at = "enter"
    /\ proc[1].setting = "small" /\ proc[1].split = ""
    /\ proc[1].n = 2 /\ Len(calls) = 2

\* The .jsonl files of an encoded collection directory, and what is found in
\* a staging directory.
ShardsIn(d) == {e.name : e \in {x \in fs : x.dir = d /\ x.name[Len(x.name)] = ".jsonl"}}
EntriesIn(d) == {e \in fs : e.dir = d}
BeginsWith(name, s) == name[1] = s

\* What the claim says is linked from collection d.
ClaimedSelection(d, setting, split) ==
    IF setting = "small" THEN {n \in ShardsIn(d) : BeginsWith(n, split)}
    ELSE IF setting = "base"
         THEN {n \in ShardsIn(d) : \E s \in {"train", "validation", "test"} : BeginsWith(n, s)}
         ELSE ShardsIn(d)

LinksDone(q) ==
    \/ q.pc \in {"mkdir_indexes", "index_text", "index_image", "done"}
    \/ q.pc = "raised" /\ q.err = "IndexerError"

StagedExactly(staging, d, setting, split) ==
    /\ {e.name : e \in EntriesIn(staging)} = ClaimedSelection(d, setting, split)
    /\ \A e \in EntriesIn(staging) :
          e.kind = "link" /\ e.target = d \o <<"/">> \o e.name

\* C2: once the link loops of an invocation are through, its two staging
\* directories hold exactly one link per selected shard, named as the shard
\* and pointing at it: for "small" the shards beginning with the split, for
\* "base" those beginning with train, validation or test, for "large" every
\* .jsonl shard; and on staging directories it created itself the
\* invocation never trips over a link of its own (each shard once).
C2_SelectsExactly ==
    \A p \in Procs :
       /\ LinksDone(proc[p]) =>
             /\ StagedExactly(TextDir(proc[p]), TextCollection,
                              proc[p].setting, proc[p].split)
             /\ StagedExactly(ImageDir(proc[p]), ImageCollection,
                              proc[p].setting, proc[p].split)
       /\ (proc[p].pc = "raised" /\ proc[p].fresh) => proc[p].err = "IndexerError"

C2_Witness ==
    /\ proc[1].pc = "done" /\ proc[1].setting = "base"
    /\ <<"other", ".text", ".jsonl">> \in ShardsIn(TextCollection)
    /\ <<"other", ".image-caption", ".jsonl">> \in ShardsIn(ImageCollection)
    /\ Cardinality(EntriesIn(TextDir(proc[1]))) = 1
    /\ Cardinality(EntriesIn(ImageDir(proc[1]))) = 1

----------------------------------------------------------------------------
(* SpecRace: two invocations of create_index with the same arguments, on   *)
(* the same fresh output path, interleaved step by step.                   *)

RaceArgs ==
    {<<"small", "validation">>, <<"small", "test">>, <<"base", None>>, <<"large", None>>}

InitRace ==
    /\ output_path = RelativeOut
    /\ dirs = {TextCollection, ImageCollection}
    /\ \E ts \in SUBSET TextShardNames, is \in ImageShardSets :
          /\ Cardinality(ts) <= MaxShards
          /\ fs = Collections(ts, is)
    /\ \E a \in RaceArgs :
          proc = [p \in Procs |->
                     [Idle EXCEPT !.pc = "enter", !.setting = a[1], !.split = a[2], !.n = 1]]
    /\ calls = <<>>
    /\ drv = DrvIdle
    /\ log = <<>>
    /\ qrel = QrelIdle
    /\ conv = ConvIdle

NextRace == \E p \in Procs : CreateIndexStep(p)

SpecRace == InitRace /\ [][NextRace]_vars

AbortedAtLink(q) == q.pc = "raised" /\ q.err = "FileExistsError" /\ q.at = "link"

\* Whether some interleaving of the link loops of two invocations, from the
\* files `files` on, ends with both aborted at symlink placement.
RECURSIVE BothCanAbort(_, _, _)
BothCanAbort(files, qa, qb) ==
    IF AbortedAtLink(qa) /\ AbortedAtLink(qb) THEN TRUE
    ELSE \/ /\ qa.pc = "link"
            /\ BothCanAbort(LinkStep(files, qa).fs, LinkStep(files, qa).q, qb)
         \/ /\ qb.pc = "link"
            /\ BothCanAbort(LinkStep(files, qb).fs, qa, LinkStep(files, qb).q)

SomeShardMatches ==
    \/ ClaimedSelection(TextCollection, proc[1].setting, proc[1].split) # {}
    \/ ClaimedSelection(ImageCollection, proc[1].setting, proc[1].split) # {}

\* Both invocations have listed their shards and neither has placed a link.
BothAboutToLink == \A p \in Procs : proc[p].pc = "link" /\ proc[p].k = 0

RaceSafety ==
    /\ \A p \in Procs : proc[p].pc = "raised" /\ proc[p].err = "FileExistsError"
                            => proc[p].at = "link"
    /\ SomeShardMatches => ~(LinksDone(proc[1]) /\ LinksDone(proc[2]))
    /\ (\A p \in Procs : proc[p].pc \in {"done", "raised"}) /\ SomeShardMatches
          => \E p \in Procs : AbortedAtLink(proc[p])
    /\ (\A p \in Procs : AbortedAtLink(proc[p])) => calls = <<>>

\* C10 as stated: no mkdir fails, the two never both get past the link
\* loops when a shard matches, and whenever the two link orders differ some
\* interleaving aborts both.
C10_AsStated ==
    /\ RaceSafety
    /\ (BothAboutToLink /\ LinkPlan(proc[1]) # LinkPlan(proc[2]))
          => BothCanAbort(fs, proc[1], proc[2])

\* C10, amended: no mkdir fails (existing directories are tolerated); when a
\* shard matches, the two invocations never both get past the link loops, and
\* of two finished invocations at least one aborted with FileExistsError at
\* symlink placement; some interleaving aborts both, with the indexer
\* invoked by neither, exactly when the two place a different link first.
C10_RaceOnLinks ==
    /\ RaceSafety
    /\ BothAboutToLink =>
          (BothCanAbort(fs, proc[1], proc[2])
              <=> LinkPlan(proc[1])[1] # LinkPlan(proc[2])[1])
    /\ (\A p \in Procs : AbortedAtLink(proc[p]))
          => LinkPlan(proc[1])[1] # LinkPlan(proc[2])[1]

C10_Witness ==
    /\ \A p \in Procs : AbortedAtLink(proc[p])
    /\ proc[1].setting = "large"
    /\ calls = <<>>
    /\ proc[1].k = 1 /\ proc[2].k = 1

----------------------------------------------------------------------------
(* The driver, main(args).  Each step is one call main makes (prep_qrels,  *)
(* encode, convert_jsonl_for_search, one engine invocation of              *)
(* search_anserini); create_index runs by the steps above as process 1.    *)

Qrels == <<"qrels">>
Runs == <<"runs">>

Event(op, setting, split, field) ==
    [op |-> op, setting |-> setting, split |-> split, field |-> field]

Abort(e) == drv' = [drv EXCEPT !.pc = "aborted", !.err = e]

\* Mutant: no split is skipped.
SkipQrels_Never(split) == FALSE

\* if split == "other": continue
SkipQrels(split) == split = "other"

\* prep_qrels as main sees it: the directory and the two projected files.
QrelsFiles(split) ==
    {RegularFile(Qrels, <<split, ".qrels.", d, ".projected.trec">>) : d \in {"t2i", "i2t"}}

Drv_PrepQrels ==
    /\ drv.pc = "qrels"
    /\ LET split == SPLITS[drv.i]
           next == IF drv.i = Len(SPLITS)
                   THEN [drv EXCEPT !.pc = "encode", !.i = 1, !.j = 1]
                   ELSE [drv EXCEPT !.i = @ + 1]
       IN IF SkipQrels(split)
          THEN drv' = next /\ UNCHANGED <<dirs, fs, log>>
          ELSE IF MkdirFails(dirs, Qrels)
          THEN Abort("FileExistsError") /\ UNCHANGED <<dirs, fs, log>>
          ELSE /\ dirs' = Mkdir(dirs, Qrels)
               /\ fs' = fs \cup QrelsFiles(split)
               /\ log' = Append(log, Event("qrels", "", split, ""))
               /\ drv' = next
    /\ UNCHANGED <<output_path, proc, calls, qrel, conv>>

\* encode(split, encoding_field, ...) of convert_jsonl: the shard it leaves
\* in the encoded collection directory of the field.
EncodedDir(field) == IF field = "text" THEN TextCollection ELSE ImageCollection
EncodedName(split, field) ==
    IF field = "text" THEN <<split, ".text", ".jsonl">>
    ELSE <<split, ".image-caption", ".jsonl">>

Drv_Encode ==
    /\ drv.pc = "encode"
    /\ LET split == SPLITS[drv.i]
           field == ENCODING_FIELDS[drv.j]
       IN /\ dirs' = dirs \cup {EncodedDir(field)}
          /\ fs' = fs \cup {RegularFile(EncodedDir(field), EncodedName(split, field))}
          /\ log' = Append(log, Event("encode", "", split, field))
    /\ drv' = IF drv.j < Len(ENCODING_FIELDS) THEN [drv EXCEPT !.j = @ + 1]
              ELSE IF drv.i < Len(SPLITS) THEN [drv EXCEPT !.i = @ + 1, !.j = 1]
              ELSE [drv EXCEPT !.pc = "index", !.i = 1, !.j = 1]
    /\ UNCHANGED <<output_path, proc, calls, qrel, conv>>

\* The create_index calls of main for one setting: validation and test
\* under "small", a single call with split None otherwise.
IndexSplits(setting) == IF setting = "small" THEN <<"validation", "test">> ELSE <<None>>

Drv_CallCreateIndex ==
    /\ drv.pc = "index"
    /\ proc[1].pc = "idle"
    /\ proc' = [proc EXCEPT ![1] = [Idle EXCEPT !.pc = "enter",
                                                !.setting = SETTINGS[drv.i],
                                                !.split = IndexSplits(SETTINGS[drv.i])[drv.j]]]
    /\ UNCHANGED <<output_path, dirs, fs, calls, drv, log, qrel, conv>>

Drv_CreateIndexReturns ==
    /\ drv.pc = "index"
    /\ proc[1].pc \in {"done", "raised"}
    /\ IF proc[1].pc = "raised"
       THEN Abort(proc[1].err) /\ UNCHANGED <<proc, log>>
       ELSE /\ log' = Append(log, Event("index", proc[1].setting, proc[1].split, ""))
            /\ proc' = [proc EXCEPT ![1] = Idle]
            /\ drv' = IF drv.j < Len(IndexSplits(SETTINGS[drv.i]))
                      THEN [drv EXCEPT !.j = @ + 1]
                      ELSE IF drv.i < Len(SETTINGS) THEN [drv EXCEPT !.i = @ + 1, !.j = 1]
                      ELSE [drv EXCEPT !.pc = "convert", !.i = 1, !.j = 1, !.k = 1]
    /\ UNCHANGED <<output_path, dirs, fs, calls, qrel, conv>>

\* for split in ["validation", "test"]: if setting != "small" and split == "test": continue
ConvertSplits == <<"validation", "test">>
SkipConvert(setting, split) == setting # "small" /\ split = "test"

\* postfix = f".{split}" if setting == "small" else ""
MainPostfix(setting, split) == IF setting = "small" THEN <<".", split>> ELSE <<>>

\* The two conversions of one iteration: (directory, input name, output name).
Conversions(setting, split) ==
    << [field |-> "text",
        dir |-> StagingDir(TextCollection, setting, MainPostfix(setting, split)),
        input |-> <<split, ".text", ".jsonl">>,
        output |-> <<split, ".text", ".search", ".jsonl">>],
       [field |-> "image-caption",
        dir |-> StagingDir(ImageCollection, setting, MainPostfix(setting, split)),
        input |-> <<split, ".image-caption", ".jsonl">>,
        output |-> <<split, ".image-caption", ".search", ".jsonl">>] >>

\* open(jsonl_file, "r"), through a link if it is one.
Readable(files, d, name) ==
    \E e \in files :
       /\ e.dir = d /\ e.name = name
       /\ e.kind = "link" =>
             \E t \in files : t.kind = "file" /\ t.dir \o <<"/">> \o t.name = e.target

\* open(output_path, "w"): the regular file convert_jsonl_for_search leaves.
ConvertedFile(d, name) == RegularFile(d, name)

Drv_Convert ==
    /\ drv.pc = "convert"
    /\ LET setting == SETTINGS[drv.i]
           split == ConvertSplits[drv.j]
           c == Conversions(setting, split)[drv.k]
           next == IF drv.k < 2 /\ ~SkipConvert(setting, split) THEN [drv EXCEPT !.k = @ + 1]
                   ELSE IF drv.j < Len(ConvertSplits) THEN [drv EXCEPT !.j = @ + 1, !.k = 1]
                   ELSE IF drv.i < Len(SETTINGS) THEN [drv EXCEPT !.i = @ + 1, !.j = 1, !.k = 1]
                   ELSE [drv EXCEPT !.pc = "search", !.i = 1, !.j = 1, !.k = 1]
       IN IF SkipConvert(setting, split)
          THEN drv' = next /\ UNCHANGED <<fs, log>>
          ELSE IF ~Readable(fs, c.dir, c.input)
          THEN Abort("FileNotFoundError") /\ UNCHANGED <<fs, log>>
          ELSE /\ fs' = {e \in fs : ~(e.dir = c.dir /\ e.name = c.output)}
                          \cup {ConvertedFile(c.dir, c.output)}
               /\ log' = Append(log, Event("convert", setting, split, c.field))
               /\ drv' = next
    /\ UNCHANGED <<output_path, dirs, proc, calls, qrel, conv>>

\* Mutant: the search appends the split under every setting.
SearchPostfix_Always(setting, split) == <<".", split>>

\* postfix = "." + split if setting == "small" else ""   (search_anserini)
SearchPostfix(setting, split) == IF setting = "small" THEN <<".", split>> ELSE <<>>

\* The two engine invocations of search_anserini(split, setting), by the
\* places under output_path they name: I2T reads the text index with the
\* image-caption topics, T2I the image index with the text topics.
SearchPlan(split, setting) ==
    LET post == SearchPostfix(setting, split)
        plan(direction, modality, coll, field) ==
           [direction |-> direction,
            index |-> IndexDir(modality, setting, post),
            topics_dir |-> StagingDir(coll, setting, post),
            topics |-> <<split, field, ".search", ".jsonl">>,
            run |-> <<"run.", split, ".bm25-anserini-default.", direction, ".",
                      setting, ".trec">>]
    IN << plan("i2t", "text", ImageCollection, ".image-caption"),
          plan("t2i", "image", TextCollection, ".text") >>

\* anserini_search(args): every path is handed over resolved.
SearchCall(s) ==
    [tool |-> "search", by |-> 1, run |-> drv.run, input |-> NoPath,
     index |-> Resolve(Under(s.index)),
     topics |-> Resolve(Under(s.topics_dir \o <<"/">> \o s.topics)),
     output |-> Resolve(Under(Runs \o <<"/">> \o s.run))]

\* search_anserini("validation", setting, output_path)
SearchSplit == "validation"

Drv_Search ==
    /\ drv.pc = "search"
    /\ LET setting == SETTINGS[drv.i]
           s == SearchPlan(SearchSplit, setting)[drv.k]
       IN IF MkdirFails(dirs, Runs)
          THEN Abort("FileExistsError") /\ UNCHANGED <<dirs, fs, calls, log>>
          ELSE /\ dirs' = Mkdir(dirs, Runs)
               /\ calls' = Append(calls, SearchCall(s))
               /\ IF s.index \notin dirs \/ ~Exists(fs, s.topics_dir, s.topics)
                  THEN Abort("SearchError") /\ UNCHANGED <<fs, log>>
                  ELSE /\ fs' = fs \cup {RegularFile(Runs, s.run)}
                       /\ log' = IF drv.k = 2
                                 THEN Append(log, Event("search", setting, SearchSplit, ""))
                                 ELSE log
                       /\ drv' = IF drv.k < 2 THEN [drv EXCEPT !.k = @ + 1]
                                 ELSE IF drv.i < Len(SETTINGS)
                                      THEN [drv EXCEPT !.i = @ + 1, !.k = 1]
                                      ELSE [drv EXCEPT !.pc = "done"]
    /\ UNCHANGED <<output_path, proc, qrel, conv>>

\* A failure of an external call (dataset download, encoder, searcher) is
\* not caught and ends the run.
Drv_ExternalFails ==
    /\ drv.pc \in {"qrels", "encode", "search"}
    /\ Abort("ExternalError")
    /\ UNCHANGED <<output_path, dirs, fs, proc, calls, log, qrel, conv>>

\* The driver is started again on the output path of an ended run.
Drv_Rerun ==
    /\ drv.pc \in {"done", "aborted"}
    /\ drv.run < MaxRuns
    /\ drv' = [pc |-> "qrels", i |-> 1, j |-> 1, k |-> 1, run |-> drv.run + 1, err |-> ""]
    /\ proc' = [proc EXCEPT ![1] = Idle]
    /\ log' = <<>>
    /\ UNCHANGED <<output_path, dirs, fs, calls, qrel, conv>>

Init ==
    /\ output_path \in {RelativeOut, AbsoluteOut}
    /\ dirs = {}
    /\ fs = {}
    /\ proc = [p \in Procs |-> Idle]
    /\ calls = <<>>
    /\ drv = [pc |-> "qrels", i |-> 1, j |-> 1, k |-> 1, run |-> 1, err |-> ""]
    /\ log = <<>>
    /\ qrel = QrelIdle
    /\ conv = ConvIdle

Next ==
    \/ Drv_PrepQrels
    \/ Drv_Encode
    \/ Drv_CallCreateIndex
    \/ drv.pc = "index" /\ CreateIndexStep(1)
    \/ Drv_CreateIndexReturns
    \/ Drv_Convert
    \/ Drv_Search
    \/ Drv_ExternalFails
    \/ Drv_Rerun

Spec == Init /\ [][Next]_vars

----------------------------------------------------------------------------
(* Claims about the driver (Spec).                                         *)

\* text-collection.{setting}[.split] and image-collection.{setting}[.split]
IsStaging(d) ==
    /\ Len(d) >= 3
    /\ <<d[1]>> \in {TextCollection, ImageCollection}
    /\ d[2] = "."

\* A symbolic link to the encoded shard of the same name.
IsShardLink(e) ==
    /\ e.kind = "link"
    /\ e.target = <<e.dir[1], "/">> \o e.name
    /\ RegularFile(<<e.dir[1]>>, e.name) \in fs

\* {split}.text.search.jsonl or {split}.image-caption.search.jsonl
IsTopicFile(e) ==
    /\ e.kind = "file"
    /\ \E split \in {"validation", "test"}, field \in {".text", ".image-caption"} :
          e.name = <<split, field, ".search", ".jsonl">>

Staged == {e \in fs : IsStaging(e.dir)}

\* C3 as stated: at every point of a run every entry of every staging
\* directory is a symbolic link to an encoded shard.
C3_AsStated == \A e \in Staged : IsShardLink(e)

\* C3, amended: every entry of a staging directory is a symbolic link to an
\* encoded shard or a topic file written there by topic reformatting (of this
\* run, or of an earlier run on the same output path); no other regular file
\* and no copy of a shard is placed, and up to the end of index construction
\* of the first run there are only links.
C3_LinksAndTopics ==
    /\ \A e \in Staged :
          \/ IsShardLink(e)
          \/ /\ IsTopicFile(e)
             /\ drv.run > 1 \/ \E i \in 1..Len(log) : log[i].op = "convert"
    /\ (drv.run = 1 /\ drv.pc \in {"qrels", "encode", "index"})
          => \A e \in Staged : IsShardLink(e)

C3_Witness ==
    /\ drv.pc = "done" /\ drv.run = 1
    /\ \E e \in Staged : IsTopicFile(e) /\ e.dir = <<"text-collection", ".", "base">>
    /\ \E e \in Staged : IsShardLink(e) /\ e.dir = <<"text-collection", ".", "base">>

\* The indexer invocations of run r, by what they read and write.
IndexCallsOf(r) ==
    LET OfRun(c) == c.tool = "index" /\ c.run = r
        cs == SelectSeq(calls, OfRun)
    IN [i \in 1..Len(cs) |-> <<cs[i].input, cs[i].index>>]

SearchCallsOf(r) ==
    LET OfRun(c) == c.tool = "search" /\ c.run = r
    IN SelectSeq(calls, OfRun)

\* C4: a run on an output path on which the first run built every staging
\* directory and index, and which no external call fails, does not fail on an
\* existing directory or link and invokes the indexer as the first run did.
C4_RerunIndexesAgain ==
    (/\ drv.run = 2
     /\ Len(IndexCallsOf(1)) = 8
     /\ drv.pc \in {"done", "aborted"}
     /\ drv.err \notin {"ExternalError", "IndexerError"})
    => /\ drv.pc = "done"
       /\ IndexCallsOf(2) = IndexCallsOf(1)

\* C5: every search invocation follows, in the same run, an indexer
\* invocation that wrote the index the search opens; and a finished run has
\* searched, per setting, the text index (I2T) and then the image index
\* (T2I), with postfix .validation under small and none otherwise.
C5_IndexBeforeSearch ==
    /\ \A k \in 1..Len(calls) :
          calls[k].tool = "search" =>
             \E j \in 1..(k - 1) :
                /\ calls[j].tool = "index"
                /\ calls[j].run = calls[k].run
                /\ Resolve(calls[j].index) = calls[k].index
    /\ drv.pc = "done" =>
          [i \in 1..Len(SearchCallsOf(drv.run)) |-> SearchCallsOf(drv.run)[i].index]
           = << Resolve(Under(IndexDir("text", "small", <<".", "validation">>))),
                Resolve(Under(IndexDir("image", "small", <<".", "validation">>))),
                Resolve(Under(IndexDir("text", "base", <<>>))),
                Resolve(Under(IndexDir("image", "base", <<>>))),
                Resolve(Under(IndexDir("text", "large", <<>>))),
                Resolve(Under(IndexDir("image", "large", <<>>))) >>

C5_Witness ==
    /\ drv.pc = "done"
    /\ ~output_path.abs
    /\ Len(SearchCallsOf(drv.run)) = 6
    /\ Len(IndexCallsOf(drv.run)) = 8

\* The stages of the claim, and what each consists of.
Rank(e) ==
    CASE e.op = "qrels" -> 1
      [] e.op = "encode" -> 2
      [] e.op = "index" -> 3
      [] e.op = "convert" -> 4
      [] e.op = "search" -> 5

StageEvents(r) ==
    CASE r = 1 -> {Event("qrels", "", s, "") : s \in {"train", "validation", "test"}}
      [] r = 2 -> {Event("encode", "", s, f) :
                       s \in {"train", "validation", "test", "other"},
                       f \in {"text", "image_caption"}}
      [] r = 3 -> {Event("index", "small", "validation", ""),
                   Event("index", "small", "test", ""),
                   Event("index", "base", None, ""),
                   Event("index", "large", None, "")}
      [] r = 4 -> {Event("convert", t, "validation", f) :
                       t \in {"small", "base", "large"}, f \in {"text", "image-caption"}}
                  \cup {Event("convert", "small", "test", f) : f \in {"text", "image-caption"}}
      [] r = 5 -> {Event("search", t, "validation", "") : t \in {"small", "base", "large"}}

Logged(r) == {log[i] : i \in {j \in 1..Len(log) : Rank(log[j]) = r}}

\* The stage the run is in, by what it is doing.
Working ==
    IF \E p \in Procs : proc[p].pc \notin {"idle", "done", "raised"} THEN 3
    ELSE IF SearchCallsOf(drv.run) # <<>> THEN 5
    ELSE 0

\* C6: the operations of a run are the claimed ones, each once, stage after
\* stage: nothing of a stage is done, or under way, before every operation of
\* every earlier stage has completed; small is indexed for validation and
\* then for test; a finished run has done all of them.
C6_StrictStageOrder ==
    /\ \A i \in 1..Len(log) :
          /\ log[i] \in StageEvents(Rank(log[i]))
          /\ \A j \in 1..Len(log) : i < j =>
                /\ Rank(log[i]) <= Rank(log[j])
                /\ log[i] # log[j]
          /\ \A r \in 1..(Rank(log[i]) - 1) : Logged(r) = StageEvents(r)
    /\ \A r \in 1..(Working - 1) : Logged(r) = StageEvents(r)
    /\ \A r \in (Working + 1)..5 : Working > 0 => Logged(r) = {}
    /\ \A i, j \in 1..Len(log) :
          (log[i] = Event("index", "small", "validation", "")
             /\ log[j] = Event("index", "small", "test", "")) => i < j
    /\ drv.pc = "done" => \A r \in 1..5 : Logged(r) = StageEvents(r)

C6_Witness ==
    /\ drv.pc = "done"
    /\ Len(log) = 26
    /\ Len(calls) = 14

----------------------------------------------------------------------------
(* SpecQrels: prep_qrels(qrels_ds, split, output_path) on any small qrels  *)
(* dataset.  A record maps the four columns to values; the dataset lists   *)
(* its columns in an order of its own, which the source does not fix.      *)

QrelColumns == {"image_id", "Q0", "text_id", "rel"}

QrelRecord(i, t, r) ==
    [c \in QrelColumns |->
        CASE c = "image_id" -> i [] c = "Q0" -> "Q0" [] c = "text_id" -> t [] c = "rel" -> r]

QrelRecords ==
    {QrelRecord(i, t, "1") : i \in {"i1", "i2"}, t \in {"t1", "t2"}}
    \cup {QrelRecord("i1", "t1", "0")}

RECURSIVE SeqsUpTo(_, _)
SeqsUpTo(S, n) ==
    IF n = 0 THEN {<<>>}
    ELSE SeqsUpTo(S, n - 1)
         \cup {Append(q, x) : q \in {y \in SeqsUpTo(S, n - 1) : Len(y) = n - 1}, x \in S}

\* Dataset.to_csv(columns=..., header=None, sep=" ", index=False): one line
\* per record, the values of the given columns in the given order.
ToCsv(rows, columns) ==
    [r \in 1..Len(rows) |-> [c \in 1..Len(columns) |-> rows[r][columns[c]]]]

\* Mutant: the explicit selection puts text_id first.
I2TColumns_Swapped == <<"text_id", "Q0", "image_id", "rel">>

\* columns=["image_id", "Q0", "text_id", "rel"]
I2TColumns == <<"image_id", "Q0", "text_id", "rel">>

InitQrels ==
    /\ output_path = RelativeOut
    /\ dirs = {}
    /\ fs = {}
    /\ proc = [p \in Procs |-> Idle]
    /\ calls = <<>>
    /\ drv = DrvIdle
    /\ log = <<>>
    /\ \E cols \in Perms(QrelColumns), rows \in SeqsUpTo(QrelRecords, MaxQrels),
          split \in {"train", "validation", "test"} :
          qrel = [pc |-> "mkdir", cols |-> cols, rows |-> rows, split |-> split,
                  t2i |-> <<>>, i2t |-> <<>>]
    /\ conv = ConvIdle

Q_Mkdir ==
    /\ qrel.pc = "mkdir"
    /\ IF MkdirFails(dirs, Qrels)
       THEN qrel' = [qrel EXCEPT !.pc = "raised"] /\ dirs' = dirs
       ELSE qrel' = [qrel EXCEPT !.pc = "write_t2i"] /\ dirs' = Mkdir(dirs, Qrels)
    /\ UNCHANGED <<output_path, fs, proc, calls, drv, log, conv>>

\* qrel_ds.to_csv(qrels_dir / f"{split}.qrels.t2i.projected.trec", ...): no
\* columns argument, so every column in the dataset's own order.
Q_WriteT2I ==
    /\ qrel.pc = "write_t2i"
    /\ qrel' = [qrel EXCEPT !.pc = "write_i2t", !.t2i = ToCsv(qrel.rows, qrel.cols)]
    /\ fs' = fs \cup {RegularFile(Qrels, <<qrel.split, ".qrels.", "t2i", ".projected.trec">>)}
    /\ UNCHANGED <<output_path, dirs, proc, calls, drv, log, conv>>

Q_WriteI2T ==
    /\ qrel.pc = "write_i2t"
    /\ qrel' = [qrel EXCEPT !.pc = "done", !.i2t = ToCsv(qrel.rows, I2TColumns)]
    /\ fs' = fs \cup {RegularFile(Qrels, <<qrel.split, ".qrels.", "i2t", ".projected.trec">>)}
    /\ UNCHANGED <<output_path, dirs, proc, calls, drv, log, conv>>

NextQrels == Q_Mkdir \/ Q_WriteT2I \/ Q_WriteI2T

SpecQrels == InitQrels /\ [][NextQrels]_vars

\* C7 as stated: the t2i file holds "image_id Q0 text_id rel" of each record
\* and the i2t file the same line with the two id columns swapped.
C7_AsStated ==
    qrel.pc = "done" =>
       \A r \in 1..Len(qrel.rows) :
          /\ qrel.t2i[r] = <<qrel.rows[r]["image_id"], "Q0", qrel.rows[r]["text_id"],
                             qrel.rows[r]["rel"]>>
          /\ qrel.i2t[r] = <<qrel.rows[r]["text_id"], "Q0", qrel.rows[r]["image_id"],
                             qrel.rows[r]["rel"]>>

\* C7, amended: it is the i2t file that holds "image_id Q0 text_id rel" of
\* each record (i1 Q0 t1 1), whatever the dataset's column order; the t2i
\* file holds the record in the dataset's own column order, which is the
\* same line with the two id columns swapped (t1 Q0 i1 1) when that order is
\* text_id, Q0, image_id, rel, and the very same line when it is image_id,
\* Q0, text_id, rel.
C7_ProjectedFiles ==
    qrel.pc = "done" =>
       /\ Len(qrel.i2t) = Len(qrel.rows) /\ Len(qrel.t2i) = Len(qrel.rows)
       /\ \A r \in 1..Len(qrel.rows) :
             /\ qrel.i2t[r] = <<qrel.rows[r]["image_id"], "Q0", qrel.rows[r]["text_id"],
                                qrel.rows[r]["rel"]>>
             /\ qrel.cols = <<"text_id", "Q0", "image_id", "rel">> =>
                   qrel.t2i[r] = <<qrel.rows[r]["text_id"], "Q0", qrel.rows[r]["image_id"],
                                   qrel.rows[r]["rel"]>>
             /\ qrel.cols = <<"image_id", "Q0", "text_id", "rel">> =>
                   qrel.t2i[r] = qrel.i2t[r]
             /\ \A c \in 1..4 : qrel.t2i[r][c] = qrel.rows[r][qrel.cols[c]]

C7_Witness ==
    /\ qrel.pc = "done"
    /\ qrel.cols = <<"text_id", "Q0", "image_id", "rel">>
    /\ qrel.rows = <<QrelRecord("i1", "t1", "1")>>
    /\ qrel.i2t = << <<"i1", "Q0", "t1", "1">> >>
    /\ qrel.t2i = << <<"t1", "Q0", "i1", "1">> >>

----------------------------------------------------------------------------
(* SpecConvert: convert_jsonl_for_search(jsonl_file, output_path) on any   *)
(* short file, with any number of pool processes.  A line is the JSON      *)
(* object it holds, as its set of <<key, value>> members.                  *)

Keys(obj) == {m[1] : m \in obj}
Get(obj, key) == (CHOOSE m \in obj : m[1] = key)[2]

\* What a worker hands back for a line that raised.
KeyError == {<<"KeyError", "">>}

\* Mutant: contents is renamed and every other key is carried over.
process_jsonl_line_Rename(line) ==
    IF {"id", "contents"} \subseteq Keys(line)
    THEN {m \in line : m[1] \notin {"contents", "title"}}
         \cup {<<"title", Get(line, "contents")>>}
    ELSE {<<"KeyError", "">>}

\* process_jsonl_line(line): obj = json.loads(line);
\* json.dumps({"id": obj["id"], "title": obj["contents"]})
process_jsonl_line(line) ==
    IF {"id", "contents"} \subseteq Keys(line)
    THEN {<<"id", Get(line, "id")>>, <<"title", Get(line, "contents")>>}
    ELSE KeyError

JsonLines ==
    { {<<"id", "x1">>, <<"contents", "a caption">>},
      {<<"id", "x2">>, <<"contents", "b">>, <<"url", "u">>, <<"title", "old">>},
      {<<"id", "x3">>, <<"url", "u">>} }

\* Pool.map cuts the list into chunks of len/(4*processes), rounded up.
ChunkFactor == 4

Chunksize(n, processes) ==
    (n \div (ChunkFactor * processes))
    + (IF n % (ChunkFactor * processes) = 0 THEN 0 ELSE 1)

NumChunks(n, chunksize) ==
    IF n = 0 THEN 0 ELSE (n + chunksize - 1) \div chunksize

\* The lines of chunk c, in order.
Chunk(lines, chunksize, c) ==
    SubSeq(lines, (c - 1) * chunksize + 1,
           IF c * chunksize < Len(lines) THEN c * chunksize ELSE Len(lines))

RECURSIVE Flatten(_)
Flatten(ss) == IF ss = <<>> THEN <<>> ELSE Head(ss) \o Flatten(Tail(ss))

\* Mutant: results are kept in the order the chunks come back.
ResultSlot_Arrival(c, nArrived) == nArrived + 1

\* Pool.map is the ordered map: the results of chunk c are put at chunk c's
\* place in the list, however many chunks came back before it.
ResultSlot(c, nArrived) == c

InitConvert ==
    /\ output_path = RelativeOut
    /\ dirs = {}
    /\ fs = {}
    /\ proc = [p \in Procs |-> Idle]
    /\ calls = <<>>
    /\ drv = DrvIdle
    /\ log = <<>>
    /\ qrel = QrelIdle
    /\ \E lines \in SeqsUpTo(JsonLines, MaxLines), processes \in 1..MaxWorkers :
          conv = [ConvIdle EXCEPT !.pc = "open", !.lines = lines, !.processes = processes]

\* open(jsonl_file, "r"), open(output_path, "w"), Pool(processes), and the
\* start of pool.map: the file is read into a list and cut into chunks.
V_Open ==
    /\ conv.pc = "open"
    /\ LET cs == Chunksize(Len(conv.lines), conv.processes)
           n == NumChunks(Len(conv.lines), cs)
       IN conv' = [conv EXCEPT !.pc = IF n = 0 THEN "write" ELSE "map",
                               !.chunksize = cs,
                               !.next = 1,
                               !.busy = [w \in 1..conv.processes |-> 0],
                               !.results = [c \in 1..n |-> <<>>],
                               !.arrived = {},
                               !.overtaken = FALSE,
                               !.rows = <<>>,
                               !.out = <<>>]
    /\ UNCHANGED <<output_path, dirs, fs, proc, calls, drv, log, qrel>>

\* An idle worker takes the next chunk off the task queue.
V_Take(w) ==
    /\ conv.pc = "map"
    /\ conv.busy[w] = 0
    /\ conv.next <= Len(conv.results)
    /\ conv' = [conv EXCEPT !.busy[w] = conv.next, !.next = @ + 1]
    /\ UNCHANGED <<output_path, dirs, fs, proc, calls, drv, log, qrel>>

\* A worker finishes its chunk.  An exception of the function ends map at
\* once, re-raised in the caller; otherwise the chunk's results are stored,
\* and map returns the list when the last chunk is in.
V_Finish(w) ==
    /\ conv.pc = "map"
    /\ conv.busy[w] # 0
    /\ LET c == conv.busy[w]
           ls == Chunk(conv.lines, conv.chunksize, c)
           res == [i \in 1..Len(ls) |-> process_jsonl_line(ls[i])]
           slot == ResultSlot(c, Cardinality(conv.arrived))
           results == [conv.results EXCEPT ![slot] = res]
           arrived == conv.arrived \cup {c}
       IN IF \E i \in 1..Len(res) : res[i] = KeyError
          THEN conv' = [conv EXCEPT !.pc = "raised", !.busy[w] = 0]
          ELSE conv' = [conv EXCEPT !.busy[w] = 0,
                                    !.results = results,
                                    !.arrived = arrived,
                                    !.overtaken = @ \/ \E b \in 1..(c - 1) : b \notin arrived,
                                    !.rows = IF Cardinality(arrived) = Len(results)
                                             THEN Flatten(results) ELSE <<>>,
                                    !.pc = IF Cardinality(arrived) = Len(results)
                                           THEN "write" ELSE "map"]
    /\ UNCHANGED <<output_path, dirs, fs, proc, calls, drv, log, qrel>>

\* for row in results: f_out.write(row + "\n")
V_Write ==
    /\ conv.pc = "write"
    /\ IF Len(conv.out) < Len(conv.rows)
       THEN conv' = [conv EXCEPT !.out = Append(@, conv.rows[Len(conv.out) + 1])]
       ELSE conv' = [conv EXCEPT !.pc = "done"]
    /\ UNCHANGED <<output_path, dirs, fs, proc, calls, drv, log, qrel>>

NextConvert ==
    \/ V_Open
    \/ \E w \in 1..conv.processes : V_Take(w)
    \/ \E w \in 1..conv.processes : V_Finish(w)
    \/ V_Write

SpecConvert == InitConvert /\ [][NextConvert]_vars

WellFormed(line) == {"id", "contents"} \subseteq Keys(line)

\* C8: whatever the number of processes and the order in which they finish,
\* a conversion that ends has written exactly one line per input line, the
\* k-th being the transform of the k-th input line; what is written before
\* the end is a prefix of that; and the conversion is cut short only by a
\* line the transform does not accept.
C8_PositionalMap ==
    /\ \A k \in 1..Len(conv.out) :
          /\ k <= Len(conv.lines)
          /\ conv.out[k] = {<<"id", Get(conv.lines[k], "id")>>,
                            <<"title", Get(conv.lines[k], "contents")>>}
    /\ conv.pc = "done" => Len(conv.out) = Len(conv.lines)
    /\ conv.pc = "raised" => \E k \in 1..Len(conv.lines) : ~WellFormed(conv.lines[k])
    /\ (\A k \in 1..Len(conv.lines) : WellFormed(conv.lines[k])) => conv.pc # "raised"

C8_Witness ==
    /\ conv.pc = "done"
    /\ Len(conv.out) = 3
    /\ conv.processes = 2
    /\ conv.overtaken
    /\ conv.out[1] # conv.out[2] /\ conv.out[2] # conv.out[3]

\* C9: for a line with keys id and contents, and any further keys, a worker
\* returns an object with exactly the keys id and title, id the line's id and
\* title the line's contents.
C9_ExactlyIdAndTitle ==
    \A c \in conv.arrived :
       LET ls == Chunk(conv.lines, conv.chunksize, c)
       IN \A i \in 1..Len(ls) :
             WellFormed(ls[i]) =>
                /\ Len(conv.results[c]) = Len(ls)
                /\ Keys(conv.results[c][i]) = {"id", "title"}
                /\ Cardinality(conv.results[c][i]) = 2
                /\ Get(conv.results[c][i], "id") = Get(ls[i], "id")
                /\ Get(conv.results[c][i], "title") = Get(ls[i], "contents")

C9_Witness ==
    /\ conv.arrived = {2}
    /\ conv.chunksize = 1
    /\ conv.lines[2] = {<<"id", "x2">>, <<"contents", "b">>, <<"url", "u">>, <<"title", "old">>}
    /\ conv.results[2] = << {<<"id", "x2">>, <<"title", "b">>} >>

====
